---- MODULE Spec2Model ----
(***************************************************************************)
(* The commit-graph layout pass of CommitGraph (src/src/app/layout.tsx,    *)
(* the useMemo at lines 589-696).  Lanes are numbered from 0 as in the     *)
(* source; the sequences laneOccupied and laneExpects hold lane l at       *)
(* position l + 1, and row i (0-based, as the loop counter) is position    *)
(* i + 1 of hashes, parents and lanes.                                     *)
(***************************************************************************)
EXTENDS Integers, Sequences, FiniteSets, TLC

\* ---- bounds of the model ------------------------------------------------
\* longest window whose rows list only later rows (or an absent hash) as parents
MaxCommits == 4
\* longest window with arbitrary hashes (duplicates) and arbitrary parent references
MaxLoose == 2
\* most parents of one commit
MaxParents == 3
\* most parent references in one window (the sum of the parent counts)
MaxEdges == 4

\* ---- program constants --------------------------------------------------
\* COLORS, and COLORS.length
COLORS ==
  <<"#3b82f6", "#22c55e", "#f59e0b", "#ef4444", "#8b5cf6", "#06b6d4", "#ec4899", "#f97316">>
PaletteSize == 8
ROW_HEIGHT == 32
COL_WIDTH == 14
PADDING_LEFT == 8

\* laneExpects holds a hash or null; hashes are positive numbers, null is 0
NULL == 0

VARIABLES
  hashes,        \* commits[k].hash for every row of the window
  parents,       \* commits[k].parents for the rows the pass has read so far
  i,             \* the loop counter of the lane assignment loop
  pc,            \* "row" | "free" | "edges" | "done"
  lanes,         \* lanes[]
  laneOccupied,  \* laneOccupied[]
  laneExpects,   \* laneExpects[]
  edges,         \* edges[]
  maxLane,       \* maxLane (0 until it is computed)
  \* CommitGraph's graph fetch (src/src/app/layout.tsx, lines 527-556)
  repoId,        \* the repoId prop
  refreshTrigger,\* the refreshTrigger prop
  issued,        \* how many times fetchGraph was called
  inFlight,      \* the fetches that wait for their response
  outcome,       \* how each fetch so far ended: "ok" | "error"
  commits,       \* the commits state: the fetch whose data it holds
  loading,       \* the loading state
  error,         \* the error state
  \* POST /api/repos/[id]/actions (route.ts, lines 24-159)
  aPc,           \* "idle" | "lookup" | "switch" | "git" | "responded"
  request,       \* the request the handler is working on
  exec,          \* how the handler's git process ended
  gitRuns,       \* the git commands the handler has executed
  response,      \* the handler's response
  \* nodePositions.map over a lanes array (layout.tsx, lines 653-659)
  paintLanes,    \* the lane indexes of two nodes
  paintColors,   \* their colors, << >> before they are computed
  \* the repository registry (src/src/lib/storage.ts)
  file,          \* the list stored in repos.json
  calls,         \* how many operations were started
  rPc,           \* per caller: "idle" | "read" | "write"
  rOp,           \* per caller: the operation it runs
  rRepos,        \* per caller: the list it holds to write
  rResult,       \* per caller: how its last operation ended
  added,         \* the ids returned by addRepo so far
  removed,       \* the ids whose removeRepo has returned
  \* the desktop shell of the packaged app (src/electron/main.js)
  platform,      \* process.platform: "darwin" | "other"
  shPc,          \* "launch" | "spawning" | "ready" | "failed" | "quit"
  mainWindow,    \* "null", or the page the window shows
  windowBy,      \* what created the window: "none" | "startup" | "activate"
  serverProcess, \* "null" | "handle"
  server,        \* the server process: "none" | "booting" | "listening"
  loads,         \* per loadApp call still waiting: the polls it has made
  activations    \* how many times activate created a window

layoutVars == <<hashes, parents, i, pc, lanes, laneOccupied, laneExpects, edges, maxLane>>
fetchVars == <<repoId, refreshTrigger, issued, inFlight, outcome, commits, loading, error>>
actionVars == <<aPc, request, exec, gitRuns, response>>
paintVars == <<paintLanes, paintColors>>
registryVars == <<file, calls, rPc, rOp, rRepos, rResult, added, removed>>
shellVars ==
  <<platform, shPc, mainWindow, windowBy, serverProcess, server, loads, activations>>
vars == <<layoutVars, fetchVars, actionVars, paintVars, registryVars, shellVars>>

\* what the steps of each part leave alone
notLayoutVars == <<fetchVars, actionVars, paintVars, registryVars, shellVars>>
notFetchVars == <<layoutVars, actionVars, paintVars, registryVars, shellVars>>
notActionVars == <<layoutVars, fetchVars, paintVars, registryVars, shellVars>>
notPaintVars == <<layoutVars, fetchVars, actionVars, registryVars, shellVars>>
notRegistryVars == <<layoutVars, fetchVars, actionVars, paintVars, shellVars>>
notShellVars == <<layoutVars, fetchVars, actionVars, paintVars, registryVars>>

N == Len(hashes)

Range(s) == {s[k] : k \in 1..Len(s)}

SetMin(S) == CHOOSE x \in S : \A y \in S : x <= y
SetMax(S) == CHOOSE x \in S : \A y \in S : x >= y

\* ---- the inputs ---------------------------------------------------------
\* A hash that no row of the window carries (a parent outside the window).
Absent == N + 1
\* a second hash outside the window
Absent2 == N + 2

\* Sequences of pairwise distinct elements of S, of length 0..n.
DistinctSeqs(S, n) ==
  {s \in UNION {[1..k -> S] : k \in 0..n} :
     \A a, b \in 1..Len(s) : a # b => s[a] # s[b]}

\* Short windows with any hashes, duplicates included.  Hashes are named in
\* order of first occurrence (the pass only compares hashes for equality).
LooseHashSeqs ==
  {s \in UNION {[1..n -> 1..n] : n \in 0..MaxLoose} :
     \A k \in 1..Len(s) : s[k] <= 1 + SetMax({s[m] : m \in 1..(k - 1)} \cup {0})}

\* Longer windows with unique hashes: row k carries hash k.
UniqueHashSeqs == {[k \in 1..n |-> k] : n \in (MaxLoose + 1)..MaxCommits}

\* Longer windows in which the second and the third row carry one hash
\* (hashes named in order of first occurrence).
DuplicateHashSeqs ==
  {[k \in 1..n |-> IF k >= 3 THEN k - 1 ELSE k] : n \in (MaxLoose + 1)..MaxCommits}

\* The hashes row r (0-based) may list as parents.  In a short window: any
\* hash of the window (its own, an earlier row's, a later row's) or an
\* absent one.  In a longer window, as git log --topo-order emits it: the
\* hashes of later rows, or an absent one (truncated history).  The first
\* row may list a second absent hash (a merge at the tip of a truncated
\* history).
ParentPool(r) ==
  (IF N <= MaxLoose THEN Range(hashes) \cup {Absent}
   ELSE {hashes[k] : k \in (r + 2)..N} \cup {Absent})
  \cup (IF r = 0 THEN {Absent2} ELSE {})

\* the number of parents listed by the first k rows
RECURSIVE ParentCountUpTo(_)
ParentCountUpTo(k) ==
  IF k = 0 THEN 0 ELSE ParentCountUpTo(k - 1) + Len(parents[k])

\* Sequences of elements of S, of length 0..n.
SeqsUpTo(S, n) == UNION {[1..k -> S] : k \in 0..n}

\* The parent lists row r may carry, the rows before it being read.  git
\* records each parent of a commit once; a short window may repeat a parent.
ParentLists(r) ==
  {ps \in (IF N <= MaxLoose THEN SeqsUpTo(ParentPool(r), MaxParents)
                            ELSE DistinctSeqs(ParentPool(r), MaxParents)) :
     /\ ParentCountUpTo(r) + Len(ps) <= MaxEdges
     \* the absent hashes are named in order of first occurrence
     /\ \A k \in 1..Len(ps) :
          ps[k] = Absent2 => \E m \in 1..(k - 1) : ps[m] = Absent}

\* ---- array helpers ------------------------------------------------------
\* Array.prototype.lastIndexOf in its place: the last index holding x, or -1.
LastIndexOf(arr, x) ==
  IF \E k \in 1..Len(arr) : arr[k] = x
  THEN SetMax({k \in 1..Len(arr) : arr[k] = x}) - 1
  ELSE -1

\* Array.prototype.indexOf: the first index holding x, or -1.
IndexOf(arr, x) ==
  IF \E k \in 1..Len(arr) : arr[k] = x
  THEN SetMin({k \in 1..Len(arr) : arr[k] = x}) - 1
  ELSE -1

\* The last lane that is not occupied, or -1.
LastFreeLane(occ) ==
  IF \E k \in 1..Len(occ) : ~occ[k]
  THEN SetMax({k \in 1..Len(occ) : ~occ[k]}) - 1
  ELSE -1

\* laneOccupied.findIndex(o => !o): the first lane that is not occupied, or -1.
FirstFreeLane(occ) ==
  IF \E k \in 1..Len(occ) : ~occ[k]
  THEN SetMin({k \in 1..Len(occ) : ~occ[k]}) - 1
  ELSE -1

\* laneOccupied.findIndex((o, idx) => !o && idx !== assignedLane)
FirstFreeLaneExcept(occ, a) ==
  IF \E k \in 1..Len(occ) : ~occ[k] /\ k - 1 # a
  THEN SetMin({k \in 1..Len(occ) : ~occ[k] /\ k - 1 # a}) - 1
  ELSE -1

\* arr[l] = v, where l is an index of arr or its length (the array grows by one).
SetAt(arr, l, v) ==
  IF l = Len(arr) THEN Append(arr, v) ELSE [arr EXCEPT ![l + 1] = v]

\* ---- lane assignment, one row -------------------------------------------
\* The lane expecting the commit, with no fallback when there is none (-1).
AssignedLaneExpectedOnly(exp, occ, h) == IndexOf(exp, h)

\* A pass that never continues a line: the expectation lookup is skipped.
AssignedLaneIgnoringExpects(exp, occ, h) ==
  LET free == FirstFreeLane(occ)
  IN  IF free # -1 THEN free ELSE Len(occ)

\* The lane of a commit with hash h: the lane expecting it, else the first
\* free lane, else a new lane.
AssignedLane(exp, occ, h) ==
  LET expected == IndexOf(exp, h)
      free == FirstFreeLane(occ)
  IN  IF expected # -1 THEN expected
      ELSE IF free # -1 THEN free
      ELSE Len(occ)

\* An additional parent always gets a new lane at the end.
ParentLaneAlwaysNew(occ, a) == Len(occ)

\* The lane reserved for an additional parent that no lane expects yet.
ParentLane(occ, a) ==
  LET free == FirstFreeLaneExcept(occ, a)
  IN  IF free # -1 THEN free ELSE Len(occ)

\* No lane is reserved for an additional parent.
AdditionalParentsSkipped(occ, exp, a, ps, p) == [occ |-> occ, exp |-> exp]

\* The loop over the additional parents ps[p], p = 1 .. ps.length - 1 (0-based).
RECURSIVE AdditionalParents(_, _, _, _, _)
AdditionalParents(occ, exp, a, ps, p) ==
  IF p >= Len(ps) THEN [occ |-> occ, exp |-> exp]
  ELSE LET parentHash == ps[p + 1]
       IN  IF parentHash \in Range(exp)
           THEN AdditionalParents(occ, exp, a, ps, p + 1)
           ELSE LET parentLane == ParentLane(occ, a)
                IN  AdditionalParents(SetAt(occ, parentLane, TRUE),
                                      SetAt(exp, parentLane, parentHash),
                                      a, ps, p + 1)

\* laneExpects[assignedLane] = commit.parents[0] forgotten
ReserveParentsFirstParentNotSet(occ, exp, a, ps) ==
  IF Len(ps) > 0
  THEN AdditionalParents(occ, exp, a, ps, 1)
  ELSE [occ |-> SetAt(occ, a, FALSE), exp |-> exp]

\* The same without the "No parents - this lane ends here" branch.
ReserveParentsKeepingRoot(occ, exp, a, ps) ==
  IF Len(ps) > 0
  THEN AdditionalParents(occ, SetAt(exp, a, ps[1]), a, ps, 1)
  ELSE [occ |-> occ, exp |-> exp]

\* "Reserve lanes for parents": occ and exp are the arrays after the commit
\* took lane a (occupied, expecting null); ps are the commit's parents.
ReserveParents(occ, exp, a, ps) ==
  IF Len(ps) > 0
  THEN AdditionalParents(occ, SetAt(exp, a, ps[1]), a, ps, 1)
  ELSE [occ |-> SetAt(occ, a, FALSE), exp |-> exp]

\* remainingCommits taken as the next commit alone.
StaleLaneNextRowOnly(exp, k, r) ==
  /\ exp[k] # NULL
  /\ ~ \E m \in (r + 2)..(IF r + 2 <= N THEN r + 2 ELSE N) : hashes[m] = exp[k]

\* remainingCommits taken as commits.slice(i): the current row counts as a
\* future commit.
StaleLaneCountingCurrentRow(exp, k, r) ==
  /\ exp[k] # NULL
  /\ ~ \E m \in (r + 1)..N : hashes[m] = exp[k]

\* "Free up lane if no future commit will use it": is lane position k stale
\* once row r is done, i.e. it expects a hash that no later row carries.
StaleLane(exp, k, r) ==
  /\ exp[k] # NULL
  /\ ~ \E m \in (r + 2)..N : hashes[m] = exp[k]

\* laneOccupied[lane] = false forgotten
FreedOccupiedKept(occ, exp, r) == occ

FreedOccupied(occ, exp, r) ==
  [k \in 1..Len(occ) |-> IF StaleLane(exp, k, r) THEN FALSE ELSE occ[k]]

\* laneExpects[lane] = null forgotten
FreedExpectsKept(exp, r) == exp

FreedExpects(exp, r) ==
  [k \in 1..Len(exp) |-> IF StaleLane(exp, k, r) THEN NULL ELSE exp[k]]

\* The index of the first row with hash h (the map keeping its first entry).
HashToIndexFirst(h) ==
  IF \E k \in 1..N : hashes[k] = h
  THEN SetMin({k \in 1..N : hashes[k] = h}) - 1
  ELSE -1

\* ---- output shaping -----------------------------------------------------
\* hashToIndex: later rows overwrite earlier ones; -1 stands for undefined.
HashToIndex(h) ==
  IF \E k \in 1..N : hashes[k] = h
  THEN SetMax({k \in 1..N : hashes[k] = h}) - 1
  ELSE -1

\* The palette taken as seven entries long.
LaneColorShortPalette(lane) == COLORS[(lane % 7) + 1]

\* COLORS[lane % COLORS.length]
LaneColor(lane) == COLORS[(lane % PaletteSize) + 1]

NodePosition(r) ==
  [hash  |-> hashes[r + 1],
   x     |-> lanes[r + 1] * COL_WIDTH + PADDING_LEFT,
   y     |-> r * ROW_HEIGHT + ROW_HEIGHT \div 2,
   lane  |-> lanes[r + 1],
   color |-> LaneColor(lanes[r + 1])]

\* nodePositions (lines 653-659)
NodePositions == [k \in 1..N |-> NodePosition(k - 1)]

\* The terminus edge runs one row down instead of to the bottom boundary.
EdgeOfShortTerminus(r, p) ==
  LET node == NodePosition(r)
      parentIndex == HashToIndex(parents[r + 1][p + 1])
  IN  IF parentIndex # -1
      THEN LET parentNode == NodePosition(parentIndex)
           IN  [x1 |-> node.x, y1 |-> node.y,
                x2 |-> parentNode.x, y2 |-> parentNode.y,
                color |-> IF p = 0 THEN node.color ELSE parentNode.color]
      ELSE [x1 |-> node.x, y1 |-> node.y,
            x2 |-> node.x, y2 |-> node.y + ROW_HEIGHT,
            color |-> node.color]

\* Every edge carries the color of the child's node.
EdgeOfChildColor(r, p) ==
  LET node == NodePosition(r)
      parentIndex == HashToIndex(parents[r + 1][p + 1])
  IN  IF parentIndex # -1
      THEN LET parentNode == NodePosition(parentIndex)
           IN  [x1 |-> node.x, y1 |-> node.y,
                x2 |-> parentNode.x, y2 |-> parentNode.y,
                color |-> node.color]
      ELSE [x1 |-> node.x, y1 |-> node.y,
            x2 |-> node.x, y2 |-> N * ROW_HEIGHT,
            color |-> node.color]

\* The edge of row r for its parent number p (both 0-based).
EdgeOf(r, p) ==
  LET node == NodePosition(r)
      parentIndex == HashToIndex(parents[r + 1][p + 1])
  IN  IF parentIndex # -1
      THEN LET parentNode == NodePosition(parentIndex)
           IN  [x1 |-> node.x, y1 |-> node.y,
                x2 |-> parentNode.x, y2 |-> parentNode.y,
                color |-> IF p = 0 THEN node.color ELSE parentNode.color]
      ELSE [x1 |-> node.x, y1 |-> node.y,
            x2 |-> node.x, y2 |-> N * ROW_HEIGHT,
            color |-> node.color]

\* Only the first parent gets an edge.
EdgesOfRowFirstParentOnly(r) ==
  [p \in 1..(IF Len(parents[r + 1]) > 0 THEN 1 ELSE 0) |-> EdgeOf(r, p - 1)]

\* Edges only for the parents inside the window (no terminus edge).
EdgesOfRowInsideOnly(r) ==
  LET Inside(p) == HashToIndex(parents[r + 1][p]) # -1
      kept == SelectSeq([p \in 1..Len(parents[r + 1]) |-> p], Inside)
  IN  [q \in 1..Len(kept) |-> EdgeOf(r, kept[q] - 1)]

EdgesOfRow(r) == [p \in 1..Len(parents[r + 1]) |-> EdgeOf(r, p - 1)]

\* edges[] after rows 0 .. r - 1 have pushed theirs
RECURSIVE EdgesUpTo(_)
EdgesUpTo(r) == IF r = 0 THEN << >> ELSE EdgesUpTo(r - 1) \o EdgesOfRow(r - 1)

\* maxLane of no commits taken as 0.
MaxLaneOfEmptyZero(ls) == IF ls = << >> THEN 0 ELSE SetMax(Range(ls)) + 1

\* The largest lane index, the + 1 forgotten.
MaxLaneOfNoPlusOne(ls) == SetMax(Range(ls) \cup {0})

\* Math.max(...lanes, 0) + 1
MaxLaneOf(ls) == SetMax(Range(ls) \cup {0}) + 1

\* ---- the state machine --------------------------------------------------
\* no request has reached the actions endpoint
NoRequest == [action |-> "none"]
NoExec == [exit |-> "none"]
NoResponse == [status |-> 0]
ActionsIdle ==
  /\ aPc = "idle"
  /\ request = NoRequest
  /\ exec = NoExec
  /\ gitRuns = 0
  /\ response = NoResponse

\* useState's initial values (lines 528-530); nothing fetched yet
NoData == [id |-> 0, repo |-> 0]
\* the error state holds a message or null
NoError == "null"
FetchIdle ==
  /\ repoId = 1
  /\ refreshTrigger = 0
  /\ issued = 0
  /\ inFlight = {}
  /\ outcome = << >>
  /\ commits = NoData
  /\ loading = TRUE
  /\ error = NoError

\* the callers of the registry (requests handled at the same time)
Callers == {1, 2}

\* no caller has started an operation
NoOp == [kind |-> "none", path |-> "", id |-> 0, ids |-> << >>]

\* an empty registry that nobody uses
RegistryIdle ==
  /\ file = << >>
  /\ calls = 0
  /\ rPc = [c \in Callers |-> "idle"]
  /\ rOp = [c \in Callers |-> NoOp]
  /\ rRepos = [c \in Callers |-> << >>]
  /\ rResult = [c \in Callers |-> "none"]
  /\ added = {}
  /\ removed = {}

\* the app is not launched
ShellIdle ==
  /\ platform = "darwin"
  /\ shPc = "launch"
  /\ mainWindow = "null"
  /\ windowBy = "none"
  /\ serverProcess = "null"
  /\ server = "none"
  /\ loads = << >>
  /\ activations = 0

\* no node to color
PaintIdle ==
  /\ paintLanes = << >>
  /\ paintColors = << >>

\* the layout of no commits, computed
LayoutIdle ==
  /\ hashes = << >>
  /\ parents = << >>
  /\ i = 0
  /\ pc = "done"
  /\ lanes = << >>
  /\ laneOccupied = << >>
  /\ laneExpects = << >>
  /\ edges = << >>
  /\ maxLane = 1

Init ==
  /\ ShellIdle
  /\ FetchIdle
  /\ ActionsIdle
  /\ PaintIdle
  /\ RegistryIdle
  /\ hashes \in LooseHashSeqs \cup UniqueHashSeqs \cup DuplicateHashSeqs
  /\ parents = << >>
  /\ i = 0
  /\ pc = IF Len(hashes) > 0 THEN "row" ELSE "edges"
  /\ lanes = [k \in 1..Len(hashes) |-> -1]
  /\ laneOccupied = << >>
  /\ laneExpects = << >>
  /\ edges = << >>
  /\ maxLane = 0

\* Lines 601-640 for row i: take a lane, reserve lanes for the parents.
AssignRow ==
  /\ pc = "row"
  /\ \E ps \in ParentLists(i) :
       LET assignedLane == AssignedLane(laneExpects, laneOccupied, hashes[i + 1])
           res == ReserveParents(SetAt(laneOccupied, assignedLane, TRUE),
                                 SetAt(laneExpects, assignedLane, NULL),
                                 assignedLane, ps)
       IN  /\ parents' = Append(parents, ps)
           /\ lanes' = [lanes EXCEPT ![i + 1] = assignedLane]
           /\ laneOccupied' = res.occ
           /\ laneExpects' = res.exp
  /\ pc' = "free"
  /\ UNCHANGED <<hashes, i, edges, maxLane, notLayoutVars>>

\* Lines 642-649 for row i, and the loop's increment and test.
FreeLanes ==
  /\ pc = "free"
  /\ laneOccupied' = FreedOccupied(laneOccupied, laneExpects, i)
  /\ laneExpects' = FreedExpects(laneExpects, i)
  /\ i' = i + 1
  /\ pc' = IF i + 1 < N THEN "row" ELSE "edges"
  /\ UNCHANGED <<hashes, parents, lanes, edges, maxLane, notLayoutVars>>

\* Lines 652-695: node positions, edges and maxLane.
BuildEdges ==
  /\ pc = "edges"
  /\ edges' = EdgesUpTo(N)
  /\ maxLane' = MaxLaneOf(lanes)
  /\ pc' = "done"
  /\ UNCHANGED <<hashes, parents, i, lanes, laneOccupied, laneExpects, notLayoutVars>>

Next == AssignRow \/ FreeLanes \/ BuildEdges

Spec == Init /\ [][Next]_vars

TypeOK ==
  /\ pc \in {"row", "free", "edges", "done"}
  /\ Len(laneOccupied) = Len(laneExpects)
  /\ Len(lanes) = N
\* ---- the graph fetch of CommitGraph --------------------------------------
\* most calls of fetchGraph in one behaviour
MaxFetches == 4

\* the repositories the page can show
RepoIds == {1, 2}

\* fetchGraph up to its await (lines 536-539): a request for repo r leaves
FetchGraph(r) ==
  /\ issued < MaxFetches
  /\ loading' = TRUE
  /\ error' = NoError
  /\ issued' = issued + 1
  /\ inFlight' = inFlight \cup {[id |-> issued + 1, repo |-> r]}
  /\ UNCHANGED <<outcome, commits>>

\* the component is mounted with some repoId; the effect (lines 554-556) runs
InitFetch ==
  /\ ShellIdle
  /\ LayoutIdle
  /\ ActionsIdle
  /\ PaintIdle
  /\ RegistryIdle
  /\ repoId \in RepoIds
  /\ refreshTrigger = 0
  /\ issued = 1
  /\ inFlight = {[id |-> 1, repo |-> repoId]}
  /\ outcome = << >>
  /\ commits = NoData
  /\ loading = TRUE
  /\ error = NoError

\* the page shows another repository: fetchGraph changes with repoId
\* (line 552) and the effect runs again; the earlier fetch is left alone
ChangeRepo ==
  /\ \E r \in RepoIds \ {repoId} :
       /\ repoId' = r
       /\ FetchGraph(r)
  /\ UNCHANGED <<refreshTrigger, notFetchVars>>

\* the page bumps refreshTrigger and the effect runs again
Refresh ==
  /\ refreshTrigger' = refreshTrigger + 1
  /\ FetchGraph(repoId)
  /\ UNCHANGED <<repoId, notFetchVars>>

\* the response of fetch q arrives with res.ok (lines 540-546, 549-551)
RespondOk ==
  /\ \E q \in inFlight :
       /\ inFlight' = inFlight \ {q}
       /\ outcome' = [k \in DOMAIN outcome \cup {q.id} |->
                        IF k = q.id THEN "ok" ELSE outcome[k]]
       /\ commits' = q
  /\ loading' = FALSE
  /\ UNCHANGED <<repoId, refreshTrigger, issued, error, notFetchVars>>

\* the fetch q fails or its response is not ok (lines 542-551)
RespondError ==
  /\ \E q \in inFlight :
       /\ inFlight' = inFlight \ {q}
       /\ outcome' = [k \in DOMAIN outcome \cup {q.id} |->
                        IF k = q.id THEN "error" ELSE outcome[k]]
  /\ error' = "Failed to fetch"
  /\ loading' = FALSE
  /\ UNCHANGED <<repoId, refreshTrigger, issued, commits, notFetchVars>>

NextFetch == ChangeRepo \/ Refresh \/ RespondOk \/ RespondError

SpecFetch == InitFetch /\ [][NextFetch]_vars

\* ---- the actions endpoint and git() --------------------------------------
\* the cases of the switch whose git functions are in the library
GitActions ==
  {"checkout", "stage", "unstage", "commit", "push", "pull", "fetch", "discard",
   "create-branch", "merge", "rebase", "abort-merge", "abort-rebase", "get-file-diff"}

\* the cases whose git functions (deleteBranch, deleteRemoteBranch,
\* searchCommits) the route imports from the library; each is taken to run
\* one git command through git(), as every function of the library does
ImportedGitActions == {"delete-branch", "delete-remote-branch", "search-commits"}

\* the cases that answer 400 when their field is blank: the message of
\* commit, the name of create-branch, the branch of merge, rebase,
\* delete-branch and delete-remote-branch, the query of search-commits and
\* the path of get-file-diff
ValidatedActions ==
  {"commit", "create-branch", "merge", "rebase", "delete-branch",
   "delete-remote-branch", "search-commits", "get-file-diff"}

\* the cases whose git function returns at once for an empty list of files
FileListActions == {"stage", "unstage", "discard"}

\* the cases that put the output of git into the message
OutputActions == {"pull", "merge", "rebase"}

\* the field of a request may be missing, empty, white space or a text
Undefined == "undefined"
FieldValues == {Undefined, "", " ", "main"}

\* a request: is the id in the registry, the action, the action's field
\* (message, branch, name, query or path), data.files (empty or not) and
\* data.all
Requests ==
  [repoFound : BOOLEAN,
   action : GitActions \cup ImportedGitActions \cup {"unknown"},
   field : FieldValues, files : {"empty", "some"}, all : BOOLEAN]

\* what a git process can leave: exit status, stdout and stderr
Stdouts == {"", "\n", "out"}
Stderrs == {"", "err"}
ExecOutcomes == [exit : {"ok", "fail"}, stdout : Stdouts, stderr : Stderrs]

\* String.prototype.trim on the texts above
Trim(str) == IF str \in {"\n", " "} THEN "" ELSE str

\* The field is checked without trim().
BlankUntrimmed(f) == f = Undefined \/ f = ""

\* !data.field?.trim()
Blank(f) == f = Undefined \/ Trim(f) = ""

\* git() (lines 7-16 of the library): the trimmed stdout, also of a failed
\* command that wrote to stdout; otherwise an Error with stderr or the
\* message of exec's error (never empty)
Git(e) ==
  IF e.exit = "ok"
  THEN [thrown |-> FALSE, value |-> Trim(e.stdout)]
  ELSE IF e.stdout # ""
       THEN [thrown |-> FALSE, value |-> Trim(e.stdout)]
       ELSE [thrown |-> TRUE,
             value |-> IF e.stderr # "" THEN e.stderr ELSE "Command failed"]

\* NextResponse.json of a success and of an error
Success(msg) == [status |-> 200, success |-> TRUE, message |-> msg, error |-> ""]
Failure(code, msg) == [status |-> code, success |-> FALSE, message |-> "", error |-> msg]

\* the message of a successful action: the output of git or a fixed text
SuccessMessage(action, out) ==
  IF action \in OutputActions /\ out # "" THEN out ELSE "done"

\* does the case run its git function without a git command (lines 122, 128, 164)
ReturnsWithoutGit(r) ==
  /\ r.action \in FileListActions
  /\ r.files = "empty"
  /\ ~(r.action = "stage" /\ r.all)

InitActions ==
  /\ ShellIdle
  /\ LayoutIdle
  /\ FetchIdle
  /\ PaintIdle
  /\ RegistryIdle
  /\ ActionsIdle

\* a request arrives (line 24)
Receive ==
  /\ aPc \in {"idle", "responded"}
  /\ request' \in Requests
  /\ aPc' = "lookup"
  /\ exec' = NoExec
  /\ gitRuns' = 0
  /\ response' = NoResponse
  /\ UNCHANGED <<notActionVars>>

\* getRepoById and the 404 (lines 29-34)
Lookup ==
  /\ aPc = "lookup"
  /\ IF request.repoFound
     THEN aPc' = "switch" /\ response' = response
     ELSE aPc' = "responded" /\ response' = Failure(404, "Repository not found")
  /\ UNCHANGED <<request, exec, gitRuns, notActionVars>>

\* the switch up to the git command of the case (lines 36-153)
Switch ==
  /\ aPc = "switch"
  /\ IF request.action = "unknown"
     THEN aPc' = "responded" /\ response' = Failure(400, "Unknown action")
     ELSE IF request.action \in ValidatedActions /\ Blank(request.field)
     THEN aPc' = "responded" /\ response' = Failure(400, "required")
     ELSE IF ReturnsWithoutGit(request)
     THEN aPc' = "responded" /\ response' = Success("done")
     ELSE aPc' = "git" /\ response' = response
  /\ UNCHANGED <<request, exec, gitRuns, notActionVars>>

\* the git command of the case ends; the case answers, or the catch of
\* lines 155-158 does
RunGit ==
  /\ aPc = "git"
  /\ \E e \in ExecOutcomes :
       /\ exec' = e
       /\ response' = IF Git(e).thrown
                      THEN Failure(500, Git(e).value)
                      ELSE Success(SuccessMessage(request.action, Git(e).value))
  /\ gitRuns' = gitRuns + 1
  /\ aPc' = "responded"
  /\ UNCHANGED <<request, notActionVars>>

NextActions == Receive \/ Lookup \/ Switch \/ RunGit

SpecActions == InitActions /\ [][NextActions]_vars

\* ---- the colors of nodes --------------------------------------------------
\* largest lane index of a node to color
MaxLaneIndex == 17

\* two nodes with any lanes
InitPaint ==
  /\ ShellIdle
  /\ LayoutIdle
  /\ FetchIdle
  /\ ActionsIdle
  /\ RegistryIdle
  /\ paintLanes \in [1..2 -> 0..MaxLaneIndex]
  /\ paintColors = << >>

\* lines 653-659: the color of every node from its lane
PaintNodes ==
  /\ paintColors = << >>
  /\ paintColors' = [k \in 1..Len(paintLanes) |-> LaneColor(paintLanes[k])]
  /\ UNCHANGED <<paintLanes, notPaintVars>>

NextPaint == PaintNodes

SpecPaint == InitPaint /\ [][NextPaint]_vars

\* ---- the repository registry ---------------------------------------------
\* most operations started in one behaviour
MaxCalls == 4

\* the paths a repository can be added with
Paths == {"/a", "/b"}

\* order of a repository that was never reordered (undefined)
NoOrder == -1

\* the ids of the stored repositories
StoredIds == {file[k].id : k \in 1..Len(file)}

\* The operations a caller can start.  addRepo gives its repository a new id
\* (crypto.randomUUID()), here the number of the call; the other operations
\* get ids that addRepo has given out, reorderRepos the stored ids in any
\* order.
RegistryOps ==
  [kind : {"add"}, path : Paths, id : {calls + 1}, ids : {<< >>}]
    \cup [kind : {"remove", "toggle"}, path : {""}, id : 1..calls, ids : {<< >>}]
    \cup [kind : {"reorder"}, path : {""}, id : {0},
          ids : {q \in DistinctSeqs(StoredIds, Len(file)) : Len(q) = Len(file)}]

\* repos.some(r => r.path === repo.path) always false: the check left out
PathStoredNever(repos, path) == FALSE

\* repos.some(r => r.path === repo.path) (line 34)
PathStored(repos, path) == \E k \in 1..Len(repos) : repos[k].path = path

\* repos.find(r => r.id === id) as a position, 0 when there is none
FindRepo(repos, id) ==
  IF \E k \in 1..Len(repos) : repos[k].id = id
  THEN SetMin({k \in 1..Len(repos) : repos[k].id = id})
  ELSE 0

\* addRepo after getRepos (lines 33-44): the list to save
AddRepo(repos, path, id) ==
  Append(repos, [id |-> id, path |-> path, favorite |-> FALSE, order |-> NoOrder])

\* removeRepo (line 51)
RemoveRepo(repos, id) ==
  LET Kept(r) == r.id # id IN SelectSeq(repos, Kept)

\* toggleFavorite (lines 62-64)
ToggleFavorite(repos, id) ==
  [k \in 1..Len(repos) |->
     IF k = FindRepo(repos, id)
     THEN [repos[k] EXCEPT !.favorite = ~repos[k].favorite]
     ELSE repos[k]]

\* reorderRepos (lines 72-77): the repository of orderedIds[index] gets
\* order index; a later entry for the same repository wins
ReorderRepos(repos, ids) ==
  [k \in 1..Len(repos) |->
     LET at == {n \in 1..Len(ids) : FindRepo(repos, ids[n]) = k}
     IN  IF at = {} THEN repos[k]
         ELSE [repos[k] EXCEPT !.order = SetMax(at) - 1]]

InitRegistry ==
  /\ ShellIdle
  /\ LayoutIdle
  /\ FetchIdle
  /\ ActionsIdle
  /\ PaintIdle
  /\ RegistryIdle

\* a caller starts an operation
CallRegistry ==
  /\ \E c \in Callers : \E op \in RegistryOps :
       /\ rPc[c] = "idle"
       /\ calls < MaxCalls
       /\ rPc' = [rPc EXCEPT ![c] = "read"]
       /\ rOp' = [rOp EXCEPT ![c] = op]
       /\ rResult' = [rResult EXCEPT ![c] = "none"]
       /\ calls' = calls + 1
  /\ UNCHANGED <<file, rRepos, added, removed, notRegistryVars>>

\* getRepos returns (lines 15-23) and the operation runs up to saveRepos,
\* or ends without saving
ReadRegistry ==
  /\ \E c \in Callers :
       /\ rPc[c] = "read"
       /\ LET op == rOp[c]
              saves == CASE op.kind = "add" -> ~PathStored(file, op.path)
                         [] op.kind = "toggle" -> FindRepo(file, op.id) # 0
                         [] OTHER -> TRUE
              list == CASE op.kind = "add" -> AddRepo(file, op.path, op.id)
                        [] op.kind = "remove" -> RemoveRepo(file, op.id)
                        [] op.kind = "toggle" -> ToggleFavorite(file, op.id)
                        [] OTHER -> ReorderRepos(file, op.ids)
          IN  /\ rPc' = [rPc EXCEPT ![c] = IF saves THEN "write" ELSE "idle"]
              /\ rOp' = [rOp EXCEPT ![c] = IF saves THEN op ELSE NoOp]
              /\ rRepos' = [rRepos EXCEPT ![c] = IF saves THEN list ELSE << >>]
              /\ rResult' = [rResult EXCEPT ![c] =
                               IF saves THEN "none"
                               ELSE IF op.kind = "add" THEN "Repository already added"
                               ELSE "ok"]
  /\ UNCHANGED <<file, calls, added, removed, notRegistryVars>>

\* saveRepos writes the caller's list (lines 25-28) and the operation returns
WriteRegistry ==
  /\ \E c \in Callers :
       /\ rPc[c] = "write"
       /\ file' = rRepos[c]
       /\ rPc' = [rPc EXCEPT ![c] = "idle"]
       /\ rRepos' = [rRepos EXCEPT ![c] = << >>]
       /\ rOp' = [rOp EXCEPT ![c] = NoOp]
       /\ rResult' = [rResult EXCEPT ![c] = "ok"]
       /\ added' = IF rOp[c].kind = "add" THEN added \cup {rOp[c].id} ELSE added
       /\ removed' = IF rOp[c].kind = "remove" THEN removed \cup {rOp[c].id} ELSE removed
  /\ UNCHANGED <<calls, notRegistryVars>>

NextRegistry == CallRegistry \/ ReadRegistry \/ WriteRegistry

SpecRegistry == InitRegistry /\ [][NextRegistry]_vars

\* ---- the desktop shell ---------------------------------------------------
\* most windows created by activate in one behaviour
MaxActivations == 2

\* the polls of waitForServer before its timeout (30 s, one poll per 300 ms)
MaxPolls == 2

\* the app is launched, packaged, on macOS or elsewhere
InitShell ==
  /\ LayoutIdle
  /\ FetchIdle
  /\ ActionsIdle
  /\ PaintIdle
  /\ RegistryIdle
  /\ platform \in {"darwin", "other"}
  /\ shPc = "launch"
  /\ mainWindow = "null"
  /\ windowBy = "none"
  /\ serverProcess = "null"
  /\ server = "none"
  /\ loads = << >>
  /\ activations = 0

\* stopServer (lines 431-437)
StopServer ==
  IF serverProcess # "null"
  THEN [serverProcess |-> "null", server |-> "none"]
  ELSE [serverProcess |-> serverProcess, server |-> server]

\* app.whenReady (lines 469-476) and startServer up to its timer (lines
\* 373-428): the window with the loading page; the server is spawned, or
\* there is no server or no node to run it and the window shows the error
WhenReady ==
  /\ shPc = "launch"
  /\ windowBy' = "startup"
  /\ \/ /\ serverProcess' = "handle"
        /\ server' = "booting"
        /\ mainWindow' = "loading"
        /\ shPc' = "spawning"
     \/ /\ mainWindow' = "startup error"
        /\ shPc' = "failed"
        /\ UNCHANGED <<serverProcess, server>>
  /\ UNCHANGED <<platform, loads, activations, notShellVars>>

\* setTimeout(resolve, 1000) of startServer fires and loadApp is called
\* (lines 427, 476-477)
ServerTimer ==
  /\ shPc = "spawning"
  /\ shPc' = "ready"
  /\ loads' = Append(loads, 0)
  /\ UNCHANGED <<platform, mainWindow, windowBy, serverProcess, server, activations,
                 notShellVars>>

\* the spawned server starts to listen
ServerListens ==
  /\ server = "booting"
  /\ server' = "listening"
  /\ UNCHANGED <<platform, shPc, mainWindow, windowBy, serverProcess, loads, activations,
                 notShellVars>>

\* one poll of waitForServer in a loadApp call (lines 341-370), and what
\* loadApp does when the wait ends (lines 443-465)
PollServer ==
  /\ \E k \in 1..Len(loads) :
       LET rest == [n \in 1..(Len(loads) - 1) |-> IF n < k THEN loads[n] ELSE loads[n + 1]]
       IN  IF server = "listening"
           THEN /\ loads' = rest
                /\ mainWindow' = IF mainWindow # "null" THEN "app" ELSE mainWindow
           ELSE IF loads[k] < MaxPolls
           THEN /\ loads' = [loads EXCEPT ![k] = loads[k] + 1]
                /\ mainWindow' = mainWindow
           ELSE /\ loads' = rest
                /\ mainWindow' = IF mainWindow # "null" THEN "failed to start"
                                 ELSE mainWindow
  /\ UNCHANGED <<platform, shPc, windowBy, serverProcess, server, activations,
                 notShellVars>>

\* the user closes the window: 'closed' (line 328) and 'window-all-closed'
\* (lines 501-504), with before-quit and will-quit off macOS
CloseWindow ==
  /\ shPc # "quit"
  /\ mainWindow # "null"
  /\ mainWindow' = "null"
  /\ windowBy' = "none"
  /\ serverProcess' = StopServer.serverProcess
  /\ server' = StopServer.server
  /\ shPc' = IF platform # "darwin" THEN "quit" ELSE shPc
  /\ loads' = IF platform # "darwin" THEN << >> ELSE loads
  /\ UNCHANGED <<platform, activations, notShellVars>>

\* the user activates the app while it has no window (lines 494-499)
Activate ==
  /\ shPc \in {"spawning", "ready", "failed"}
  /\ mainWindow = "null"
  /\ activations < MaxActivations
  /\ activations' = activations + 1
  /\ mainWindow' = "loading"
  /\ windowBy' = "activate"
  /\ loads' = Append(loads, 0)
  /\ UNCHANGED <<platform, shPc, serverProcess, server, notShellVars>>

\* the user quits the app: before-quit and will-quit (lines 506-507)
Quit ==
  /\ shPc \in {"spawning", "ready", "failed"}
  /\ shPc' = "quit"
  /\ mainWindow' = "null"
  /\ windowBy' = "none"
  /\ serverProcess' = StopServer.serverProcess
  /\ server' = StopServer.server
  /\ loads' = << >>
  /\ UNCHANGED <<platform, activations, notShellVars>>

NextShell ==
  WhenReady \/ ServerTimer \/ ServerListens \/ PollServer \/ CloseWindow \/ Activate \/ Quit

\* the steps of the app and of its server happen; the user's need not
SpecShell ==
  /\ InitShell
  /\ [][NextShell]_vars
  /\ WF_vars(WhenReady)
  /\ WF_vars(ServerTimer)
  /\ WF_vars(ServerListens)
  /\ WF_vars(PollServer)

\* ---- properties of the layout -------------------------------------------
UniqueHashes == \A a, b \in 1..N : a # b => hashes[a] # hashes[b]

\* the rows (0-based) that were given lane l
RowsInLane(l) == {r \in 0..(N - 1) : lanes[r + 1] = l}

\* C1: no dangling lanes -- for a non-empty window with unique hashes, every
\* lane index below maxLane is the lane of at least one commit.
C1_NoDanglingLanes ==
  (pc = "done" /\ N > 0 /\ UniqueHashes)
    => \A l \in 0..(maxLane - 1) : RowsInLane(l) # {}

\* row r (0-based) lists hash h among its parents
ListsParent(r, h) == \E p \in 1..Len(parents[r + 1]) : parents[r + 1][p] = h

\* row j is a later row carrying the first parent of row r
FirstParentAt(r, j) ==
  /\ r < j
  /\ Len(parents[r + 1]) > 0
  /\ hashes[j + 1] = parents[r + 1][1]

\* C2 as stated: first-parent same-lane continuity -- if the first parent of
\* row r is at a later row j and no row between them was given lanes[r], then
\* lanes[j] = lanes[r], also when other earlier rows share that first parent.
C2_FirstParentSameLane ==
  pc = "done" =>
    \A r, j \in 0..(N - 1) :
      (/\ FirstParentAt(r, j)
       /\ \A k \in (r + 1)..(j - 1) : lanes[k + 1] # lanes[r + 1])
        => lanes[j + 1] = lanes[r + 1]

\* C2 amended: with unique hashes the first parent never lands in a higher
\* lane than its child (lanes[j] <= lanes[r]), and it lands in the same lane
\* when no other row before j lists it as a parent.
C2_FirstParentLowestLane ==
  (pc = "done" /\ UniqueHashes) =>
    \A r, j \in 0..(N - 1) :
      FirstParentAt(r, j) =>
        /\ lanes[j + 1] <= lanes[r + 1]
        /\ (\A k \in 0..(j - 1) : k # r => ~ListsParent(k, hashes[j + 1]))
             => lanes[j + 1] = lanes[r + 1]

\* C2 witness: a first parent two rows below its only child, in the child's
\* lane, and another first parent shared by two children in different lanes.
C2_Witness ==
  /\ pc = "done" /\ UniqueHashes
  /\ \E r, j \in 0..(N - 1) :
       /\ FirstParentAt(r, j) /\ j > r + 1
       /\ \A k \in 0..(j - 1) : k # r => ~ListsParent(k, hashes[j + 1])
       /\ lanes[j + 1] = lanes[r + 1]
  /\ \E r, q, j \in 0..(N - 1) :
       /\ r # q /\ FirstParentAt(r, j) /\ FirstParentAt(q, j)
       /\ lanes[j + 1] < lanes[q + 1]

\* C4: lane bounds -- every row has 0 <= lanes[r] < maxLane, and maxLane is
\* 1 + the largest lane of a row.
C4_LaneBounds ==
  pc = "done" =>
    /\ \A k \in 1..N : 0 <= lanes[k] /\ lanes[k] < maxLane
    /\ N > 0 => maxLane = 1 + SetMax(Range(lanes))

\* C4 witness: a finished layout that uses three lanes.
C4_Witness == pc = "done" /\ N > 0 /\ maxLane = 3 /\ \E k \in 1..N : lanes[k] = 2

\* the positions in edges[] of the edges that start at the node of row r
EdgesFrom(r) ==
  {e \in 1..Len(edges) :
     edges[e].x1 = NodePosition(r).x /\ edges[e].y1 = NodePosition(r).y}

\* C5: merge fan-out -- a commit with k parents has exactly k edges starting
\* at its node, inside the window or not; the edges number the sum of the
\* parent counts.
C5_MergeFanOut ==
  pc = "done" =>
    /\ \A r \in 0..(N - 1) : Cardinality(EdgesFrom(r)) = Len(parents[r + 1])
    /\ Len(edges) = ParentCountUpTo(N)

\* C5 witness: a finished layout with a root commit and a merge commit that
\* has one parent inside the window and one outside.
C5_Witness ==
  /\ pc = "done"
  /\ \E r \in 1..N : Len(parents[r]) = 0
  /\ \E r \in 1..N :
       /\ Len(parents[r]) = 2
       /\ HashToIndex(parents[r][1]) # -1
       /\ HashToIndex(parents[r][2]) = -1
\* lane l is free and expects nothing
LaneReleased(l) == ~laneOccupied[l + 1] /\ laneExpects[l + 1] = NULL

\* C6: root termination -- once the row of a commit without parents is
\* processed, the lane of that commit is not occupied and expects no hash.
C6_RootTermination ==
  (i >= 1 /\ pc # "free" /\ Len(parents[i]) = 0) => LaneReleased(lanes[i])

\* C6 witness: the row of a root commit is done while another lane still
\* waits for a commit.
C6_Witness ==
  /\ i >= 1 /\ pc = "row" /\ Len(parents[i]) = 0
  /\ \E k \in 1..Len(laneOccupied) : laneOccupied[k]

\* some row lists its own hash, or the hash of an earlier row, as a parent
ListsSelfOrEarlier ==
  \E r \in 0..(N - 1) : \E k \in 0..r : ListsParent(r, hashes[k + 1])

\* some row lists a hash that no row carries
ListsAbsent == \E r \in 0..(N - 1) : ListsParent(r, Absent)

\* the steps the pass has left: two per row, one to build the edges
Remaining ==
  2 * (N - i) - (IF pc = "free" THEN 1 ELSE 0) + (IF pc = "done" THEN 0 ELSE 1)

\* C7: totality -- on every window, malformed ones included, the pass runs
\* to its end (every state before the end has a successor, every step brings
\* the end nearer) and leaves no lanes[r] at -1.
C7_Totality ==
  /\ [](/\ pc # "done" => ENABLED Next
        /\ pc \in {"row", "free"} => i < N
        /\ pc \in {"edges", "done"} => i = N /\ \A k \in 1..N : lanes[k] >= 0
        /\ Remaining >= 0)
  /\ [][Remaining' < Remaining]_vars

\* C7 witness: a finished pass over a window with a duplicate hash, a parent
\* at the same or an earlier row and a parent that never appears.
C7_Witness ==
  /\ pc = "done" /\ N > 0
  /\ ~UniqueHashes /\ ListsSelfOrEarlier /\ ListsAbsent
  /\ \A k \in 1..N : lanes[k] >= 0

\* Scenario A: [C3, C2, C1], C3 -> C2 -> C1 -> a commit outside the window
ScenarioA ==
  /\ hashes = <<1, 2, 3>>
  /\ parents = << <<2>>, <<3>>, <<4>> >>

\* C8 as stated: scenario A yields lanes [0,0,0], exactly 2 edges, all in one
\* lane and colour, and maxLane 1.
C8_LinearTwoEdges ==
  (pc = "done" /\ ScenarioA) =>
    /\ lanes = <<0, 0, 0>>
    /\ Len(edges) = 2
    /\ \A e \in 1..Len(edges) :
         edges[e].x1 = PADDING_LEFT /\ edges[e].x2 = PADDING_LEFT /\ edges[e].color = "#3b82f6"
    /\ maxLane = 1

\* C8 amended: scenario A yields lanes [0,0,0], exactly 3 edges (C3 to C2, C2
\* to C1 and the terminus edge of C1's parent outside the window), all in
\* lane 0 and its colour, and maxLane 1.
C8_LinearThreeEdges ==
  (pc = "done" /\ ScenarioA) =>
    /\ lanes = <<0, 0, 0>>
    /\ Len(edges) = 3
    /\ \A e \in 1..Len(edges) :
         edges[e].x1 = PADDING_LEFT /\ edges[e].x2 = PADDING_LEFT /\ edges[e].color = "#3b82f6"
    /\ edges[1].y2 = NodePosition(1).y
    /\ edges[2].y2 = NodePosition(2).y
    /\ edges[3].y2 = 3 * ROW_HEIGHT
    /\ maxLane = 1

C8_Witness == pc = "done" /\ ScenarioA /\ Len(edges) = 3

\* Scenario B: [C, B, A], C and B children of A, A a root; parents as far as
\* the pass has read them
ScenarioB ==
  /\ hashes = <<1, 2, 3>>
  /\ \A k \in 1..Len(parents) : parents[k] = << <<3>>, <<3>>, << >> >>[k]

\* C9: scenario B -- C and B get different lanes that both expect A until
\* A's row, A takes the lane of one of them (lanes [0,1,0]), maxLane is 2.
C9_Branch ==
  ScenarioB =>
    /\ (i = 1 /\ pc = "row") =>
         laneOccupied = <<TRUE>> /\ laneExpects = <<3>>
    /\ ((i = 1 /\ pc = "free") \/ (i = 2 /\ pc = "row")) =>
         /\ lanes[1] # lanes[2]
         /\ laneOccupied = <<TRUE, TRUE>>
         /\ laneExpects[lanes[1] + 1] = 3 /\ laneExpects[lanes[2] + 1] = 3
    /\ pc \in {"edges", "done"} =>
         /\ lanes = <<0, 1, 0>>
         /\ laneOccupied = <<FALSE, FALSE>> /\ laneExpects = <<NULL, NULL>>
    /\ pc = "done" => maxLane = 2

C9_Witness == ScenarioB /\ pc = "done" /\ lanes = <<0, 1, 0>>

\* Scenario C at row m (0-based): a merge commit M with parents [P1, P2],
\* P1 at the next row and P2 at the later row j.  The parents of row m are
\* known once the pass has read that row.
MergeScenario(m, j) ==
  /\ UniqueHashes
  /\ m + 2 <= j /\ j <= N - 1
  /\ Len(parents) > m
  /\ Len(parents[m + 1]) = 2
  /\ parents[m + 1][1] = hashes[m + 2]
  /\ parents[m + 1][2] = hashes[j + 1]

\* no row before m lists P1 or P2 as a parent
NoEarlierChild(m, j) ==
  \A k \in 0..(m - 1) :
    ~ListsParent(k, hashes[m + 2]) /\ ~ListsParent(k, hashes[j + 1])

\* lane l is occupied and expects h
LaneHolds(l, h) ==
  l + 1 <= Len(laneExpects) /\ laneOccupied[l + 1] /\ laneExpects[l + 1] = h

\* the pass is past M's reservation and has not reached P2's row
Between(m, j) == (i = m /\ pc = "free") \/ (m < i /\ i < j)

\* the outcome of scenario C in the states of the pass
MergeOutcome(m, j) ==
  /\ (i = m /\ pc = "free") =>
       \E l \in 0..(Len(laneExpects) - 1) :
         l # lanes[m + 1] /\ LaneHolds(l, hashes[j + 1])
  /\ (i > m + 1 \/ (i = m + 1 /\ pc = "free")) => lanes[m + 2] = lanes[m + 1]
  /\ i > j => \A l \in 0..(Len(laneExpects) - 1) : laneExpects[l + 1] # hashes[j + 1]
  /\ pc = "done" => Cardinality(EdgesFrom(m)) = 2

\* the steps of scenario C: the lane for P2 is opened by M's row, and a lane
\* holding P2 keeps holding it until P2's row
MergeSteps(m, j) ==
  /\ (i = m /\ pc = "row" /\ MergeScenario(m, j)') =>
       \E l \in 0..(Len(laneExpects') - 1) :
         /\ l # lanes'[m + 1]
         /\ LaneHolds(l, hashes[j + 1])'
         /\ ~LaneHolds(l, hashes[j + 1])
  /\ (MergeScenario(m, j) /\ Between(m, j)) =>
       \A l \in 0..(Len(laneExpects) - 1) :
         (l # lanes[m + 1] /\ LaneHolds(l, hashes[j + 1]))
           => LaneHolds(l, hashes[j + 1])'

\* C10 as stated: for every merge commit M with parents [P1, P2], P1 at the
\* next row and P2 some rows later: M has exactly 2 edges, P1 is in M's lane,
\* a lane other than M's is opened for P2 at M's row, stays occupied until
\* P2's row and no lane expects P2 after it.
C10_Merge ==
  /\ [](\A m, j \in 0..(N - 1) : MergeScenario(m, j) => MergeOutcome(m, j))
  /\ [][\A m, j \in 0..(N - 1) : MergeSteps(m, j)]_vars

\* C10 amended: the same, for a merge commit M such that no earlier row
\* lists P1 or P2 as a parent (for instance M at the first row).
C10_MergeNoEarlierChild ==
  /\ [](\A m, j \in 0..(N - 1) :
          (MergeScenario(m, j) /\ NoEarlierChild(m, j)) => MergeOutcome(m, j))
  /\ [][\A m, j \in 0..(N - 1) :
          (MergeScenario(m, j)' /\ NoEarlierChild(m, j)') => MergeSteps(m, j)]_vars

\* C10 witness: M at the first row, P2 three rows below, the pass at P2's
\* row with lane 1 still held for P2 while lane 0 went on to P1's line.
C10_Witness ==
  /\ MergeScenario(0, 3) /\ i = 3 /\ pc = "row"
  /\ lanes[1] = 0 /\ lanes[2] = 0
  /\ LaneHolds(1, hashes[4])
\* ---- truncated history --------------------------------------------------
\* the parent positions (1-based) of row r whose hash no row of the window carries
AbsentParents(r) ==
  {p \in 1..Len(parents[r + 1]) : HashToIndex(parents[r + 1][p]) = -1}

\* the positions in edges[] of the edges from the node of row r to the bottom
\* boundary
TerminusEdgesFrom(r) == {e \in EdgesFrom(r) : edges[e].y2 = N * ROW_HEIGHT}

\* C11: truncated history -- every parent of a commit that is outside the
\* window yields exactly one terminus edge: from the commit's node straight
\* down (x2 = x1) to y = N * ROW_HEIGHT, in the colour of the commit's lane;
\* a commit whose only parent is outside has exactly one edge, that one.
C11_TerminusEdges ==
  pc = "done" =>
    \A r \in 0..(N - 1) :
      /\ Cardinality(TerminusEdgesFrom(r)) = Cardinality(AbsentParents(r))
      /\ \A e \in TerminusEdgesFrom(r) :
           /\ edges[e].x2 = edges[e].x1
           /\ edges[e].x1 = lanes[r + 1] * COL_WIDTH + PADDING_LEFT
           /\ edges[e].color = COLORS[(lanes[r + 1] % 8) + 1]
      /\ (Len(parents[r + 1]) = 1 /\ AbsentParents(r) = {1})
           => EdgesFrom(r) = TerminusEdgesFrom(r) /\ Cardinality(EdgesFrom(r)) = 1

\* C11 witness: a commit above the last row, in lane 1, whose only parent is
\* outside the window, in a finished layout that also has an edge between
\* two nodes.
C11_Witness ==
  /\ pc = "done"
  /\ \E r \in 0..(N - 2) :
       /\ Len(parents[r + 1]) = 1 /\ AbsentParents(r) = {1}
       /\ lanes[r + 1] = 1
       /\ Cardinality(TerminusEdgesFrom(r)) = 1
  /\ \E e \in 1..Len(edges) : edges[e].y2 # N * ROW_HEIGHT

\* ---- the steps of the lane assignment -----------------------------------
\* the lanes (0-based) that expect hash h
LanesExpecting(exp, h) == {l \in 0..(Len(exp) - 1) : exp[l + 1] = h}

\* the step that gives row i its lane and reserves lanes for its parents
IsAssignStep == pc = "row" /\ pc' = "free"

\* the step that frees the stale lanes after row i
IsFreeStep == pc = "free" /\ pc' # "free"

\* C14: lane choice -- a commit that some lane expects takes such a lane;
\* any other commit takes the lowest-indexed lane that is not occupied, and
\* a new lane (index = the lane count) only when every lane is occupied.
C14_LaneChoice ==
  [][IsAssignStep =>
       LET h == hashes[i + 1]
           a == lanes'[i + 1]
       IN  IF LanesExpecting(laneExpects, h) # {}
           THEN a \in LanesExpecting(laneExpects, h)
           ELSE /\ 0 <= a /\ a <= Len(laneOccupied)
                /\ \A l \in 0..(a - 1) : laneOccupied[l + 1]
                /\ a < Len(laneOccupied) => ~laneOccupied[a + 1]
                /\ a = Len(laneOccupied) =>
                     \A l \in 0..(Len(laneOccupied) - 1) : laneOccupied[l + 1]]_vars

\* C14 witness: the third row, which no lane expects, has taken lane 2, which
\* the second row had reserved for a parent outside the window and which was
\* freed again, while lanes 0 and 1 are still held.
C14_Witness ==
  /\ pc = "free" /\ i = 2 /\ N = 4
  /\ parents[1] = <<4>> /\ parents[2] = <<4, Absent>>
  /\ lanes[3] = 2
  /\ LaneHolds(0, 4) /\ LaneHolds(1, 4)

\* C15: first match wins -- when two or more lanes expect the hash of the
\* commit at row i the commit takes the lowest of them, and with unique
\* hashes every other lane that expected that hash is released (not
\* occupied, expecting nothing) when row i is done.
C15_FirstMatchWins ==
  [][LET h == hashes[i + 1]
     IN  /\ (IsAssignStep /\ Cardinality(LanesExpecting(laneExpects, h)) >= 2) =>
              /\ lanes'[i + 1] = SetMin(LanesExpecting(laneExpects, h))
              /\ \A l \in LanesExpecting(laneExpects, h) \ {lanes'[i + 1]} :
                   laneOccupied'[l + 1] /\ laneExpects'[l + 1] = h
         /\ (IsFreeStep /\ UniqueHashes) =>
              \A l \in LanesExpecting(laneExpects, h) \ {lanes[i + 1]} :
                ~laneOccupied'[l + 1] /\ laneExpects'[l + 1] = NULL]_vars

\* C15 witness: unique hashes, the commit of row i took the lower of two
\* lanes that expected it, and the higher one still holds its hash before
\* the stale lanes are freed.
C15_Witness ==
  /\ pc = "free" /\ UniqueHashes
  /\ \E l \in 0..(Len(laneExpects) - 1) :
       lanes[i + 1] < l /\ LaneHolds(l, hashes[i + 1])
\* the rows (positions of hashes) that come after the rows the pass has done
LaterRows == (i + 1)..N

\* C16: stale-expectation release -- when a row is done, every lane that
\* expects a hash expects the hash of a later row, a lane that expects
\* nothing is not occupied, and after the last row no lane is occupied.
C16_StaleRelease ==
  /\ pc # "free" =>
       \A k \in 1..Len(laneExpects) :
         IF laneExpects[k] # NULL
         THEN \E m \in LaterRows : hashes[m] = laneExpects[k]
         ELSE ~laneOccupied[k]
  /\ pc \in {"edges", "done"} =>
       \A k \in 1..Len(laneOccupied) : ~laneOccupied[k] /\ laneExpects[k] = NULL

\* C16 witness: a row that lists a parent outside the window is done, the
\* lane of that parent is released and another lane still waits for a
\* later row.
C16_Witness ==
  /\ pc = "row" /\ i >= 2
  /\ ListsParent(i - 1, Absent)
  /\ \E l \in 0..(Len(laneExpects) - 1) : LaneReleased(l)
  /\ \E l \in 0..(Len(laneExpects) - 1) : laneOccupied[l + 1] /\ laneExpects[l + 1] # NULL

\* C17: lane exclusivity -- with unique hashes, if the first parent of row r
\* is at a later row j, no row between them is given lanes[r], and that
\* lane stays occupied, expecting the parent, from row r until row j.
C17_LaneExclusive ==
  UniqueHashes =>
    \A r, j \in 0..(N - 1) :
      (Len(parents) > r /\ FirstParentAt(r, j)) =>
        /\ \A k \in (r + 1)..(j - 1) : lanes[k + 1] # lanes[r + 1]
        /\ (Between(r, j) \/ (i = j /\ pc = "row"))
             => LaneHolds(lanes[r + 1], hashes[j + 1])

\* C17 witness: the pass is at the row of a first parent, two or more rows
\* below its child, the rows between have lanes, and the child's lane still
\* holds the parent's hash.
C17_Witness ==
  /\ pc = "row" /\ UniqueHashes
  /\ \E r \in 0..(i - 2) :
       /\ FirstParentAt(r, i)
       /\ LaneHolds(lanes[r + 1], hashes[i + 1])
       /\ \A k \in (r + 1)..(i - 1) : lanes[k + 1] >= 0 /\ lanes[k + 1] # lanes[r + 1]

\* arr with arr[l] = v, l an index of arr or its length
Written(arr, l, v) ==
  [k \in 1..(IF l + 1 > Len(arr) THEN l + 1 ELSE Len(arr)) |->
     IF k = l + 1 THEN v ELSE arr[k]]

\* C18: merge-parent reservation -- at the row of a commit with parents at
\* index >= 1, each such parent that no lane expects yet gets exactly one
\* newly occupied lane, the lowest unoccupied lane other than lanes[i] or a
\* new lane at the end; a parent that a lane already expects (the first
\* parent in lanes[i] included) gets none, and lanes[i] is never chosen.
C18_MergeParentReservation ==
  [][(IsAssignStep /\ Len(parents'[i + 1]) >= 2) =>
       LET ps == parents'[i + 1]
           a == lanes'[i + 1]
           occ1 == Written(laneOccupied, a, TRUE)
           exp1 == Written(laneExpects, a, ps[1])
           \* the additional parents that get a lane, by position in ps
           newPs == {p \in 2..Len(ps) :
                       /\ ps[p] \notin Range(exp1)
                       /\ \A q \in 2..(p - 1) : ps[q] # ps[p]}
           \* the lanes to hand out, lowest first
           cands == {l \in 0..(Len(occ1) - 1) : ~occ1[l + 1] /\ l # a}
                      \cup (Len(occ1)..(Len(occ1) + Len(ps)))
           Cand(n) == CHOOSE c \in cands : Cardinality({d \in cands : d < c}) = n
           LaneOf(p) == Cand(Cardinality({q \in newPs : q < p}))
           given == {LaneOf(p) : p \in newPs}
       IN  /\ \A p \in newPs :
                /\ LaneOf(p) # a
                /\ LaneOf(p) >= Len(laneOccupied) \/ ~laneOccupied[LaneOf(p) + 1]
                /\ laneOccupied'[LaneOf(p) + 1]
                /\ laneExpects'[LaneOf(p) + 1] = ps[p]
           /\ Len(laneOccupied') = Len(laneExpects')
           /\ Len(laneExpects') = SetMax({Len(exp1)} \cup {l + 1 : l \in given})
           /\ \A l \in (0..(Len(exp1) - 1)) \ given :
                laneOccupied'[l + 1] = occ1[l + 1] /\ laneExpects'[l + 1] = exp1[l + 1]]_vars

\* C18 witness: a merge commit in lane 1 whose second parent, listed by no
\* earlier row, holds the freed lane 0.
C18_Witness ==
  /\ pc = "free" /\ Len(parents[i + 1]) = 2
  /\ lanes[i + 1] = 1
  /\ LaneHolds(0, parents[i + 1][2])
  /\ \A k \in 0..(i - 1) : ~ListsParent(k, parents[i + 1][2])

\* C19: first-parent reservation -- right after the reservation step of a
\* row with at least one parent, lanes[i] is occupied and expects exactly
\* parents[0].
C19_FirstParentReservation ==
  (pc = "free" /\ Len(parents[i + 1]) > 0)
    => LaneHolds(lanes[i + 1], parents[i + 1][1])

\* C19 witness: a merge commit that its lane was expecting; the lane now
\* expects the commit's first parent.
C19_Witness ==
  /\ pc = "free" /\ Len(parents[i + 1]) = 2
  /\ \E r \in 0..(i - 1) : FirstParentAt(r, i) /\ lanes[r + 1] = lanes[i + 1]
  /\ parents[i + 1][1] # hashes[i + 1]
  /\ LaneHolds(lanes[i + 1], parents[i + 1][1])

\* C20: occupied/expecting agreement -- when a row is done a lane is
\* occupied if and only if it expects a hash; the two arrays always have the
\* same length, every slot holding a boolean and a hash or null.
C20_OccupiedIffExpecting ==
  /\ Len(laneOccupied) = Len(laneExpects)
  /\ \A k \in 1..Len(laneOccupied) :
       laneOccupied[k] \in BOOLEAN /\ laneExpects[k] \in 0..Absent2
  /\ pc # "free" =>
       \A k \in 1..Len(laneOccupied) : laneOccupied[k] <=> laneExpects[k] # NULL

\* C20 witness: a row is done; of three lanes one is occupied and one free.
C20_Witness ==
  /\ pc = "row" /\ i >= 1 /\ Len(laneOccupied) = 3
  /\ \E k \in 1..3 : laneOccupied[k] /\ laneExpects[k] # NULL
  /\ \E k \in 1..3 : ~laneOccupied[k] /\ laneExpects[k] = NULL
\* ---- properties of the actions endpoint ---------------------------------
\* C12: failure reporting -- whenever the git command of an action failed,
\* the response is an error (not a success, with an error message), whatever
\* the command wrote to its standard output.
C12_FailureReported ==
  (aPc = "responded" /\ exec # NoExec /\ exec.exit = "fail")
    => /\ response.status # 200
       /\ ~response.success
       /\ response.error # ""

\* ---- properties of the graph fetch --------------------------------------
\* C13: stale fetch superseded -- once no fetch is in flight, and the most
\* recently issued fetch succeeded, the commits held are those it returned,
\* for the current repoId.
C13_StaleFetchSuperseded ==
  (inFlight = {} /\ outcome[issued] = "ok")
    => commits = [id |-> issued, repo |-> repoId]
\* ---- properties of the edges --------------------------------------------
\* the position in edges[] of the edge of row r for its parent number p
EdgeIndex(r, p) == ParentCountUpTo(r) + p + 1

\* row j is the row the edges to hash h end at
EdgeTarget(h, j) ==
  /\ hashes[j + 1] = h
  /\ \A k \in (j + 1)..(N - 1) : hashes[k + 1] # h

\* C21: edge color rule -- for a parent inside the window, the edge of
\* parent 0 has the color of the child's lane, and the edge of every parent
\* p >= 1 has the color of the lane the parent commit was assigned.
C21_EdgeColor ==
  pc = "done" =>
    \A r, j \in 0..(N - 1) : \A p \in 0..(Len(parents[r + 1]) - 1) :
      EdgeTarget(parents[r + 1][p + 1], j) =>
        edges[EdgeIndex(r, p)].color =
          (IF p = 0 THEN COLORS[(lanes[r + 1] % 8) + 1]
                    ELSE COLORS[(lanes[j + 1] % 8) + 1])

\* C21 witness: a merge whose second parent was given a lane of its own at
\* the merge row (no earlier row lists it) and ended in the merge's lane; the
\* edge of the second parent has the color of that lane.
C21_Witness ==
  /\ pc = "done" /\ UniqueHashes
  /\ \E r, j \in 0..(N - 1) :
       /\ r < j /\ Len(parents[r + 1]) = 2
       /\ parents[r + 1][2] = hashes[j + 1]
       /\ \A k \in 0..(r - 1) : ~ListsParent(k, hashes[j + 1])
       /\ lanes[j + 1] = lanes[r + 1]
       /\ edges[EdgeIndex(r, 1)].color = COLORS[(lanes[j + 1] % 8) + 1]
       /\ edges[EdgeIndex(r, 1)].x2 = NodePosition(j).x
\* ---- properties of the colors -------------------------------------------
\* C22: color assignment -- the color of a node depends only on its lane
\* modulo 8: two nodes have the same color exactly when their lanes are
\* congruent modulo 8, and every lane >= 0 gets an entry of the palette.
C22_ColorByLaneModulo ==
  paintColors # << >> =>
    /\ (paintColors[1] = paintColors[2]) <=> (paintLanes[1] % 8 = paintLanes[2] % 8)
    /\ \A k \in 1..2 : \E c \in 1..8 : paintColors[k] = COLORS[c]

\* C22 witness: two nodes in lanes 8 apart, colored alike.
C22_Witness ==
  /\ paintColors # << >>
  /\ paintLanes[2] = paintLanes[1] + 8
  /\ paintColors[1] = paintColors[2]
\* ---- properties of the layout width -------------------------------------
\* C23: layout width bound -- for a non-empty window of N commits with
\* unique hashes, maxLane <= N: no commit has a lane index >= N.
C23_WidthBound ==
  (pc = "done" /\ N > 0 /\ UniqueHashes)
    => /\ maxLane <= N
       /\ \A k \in 1..N : lanes[k] < N
\* C24: empty input -- for no commits the pass returns no node positions,
\* no edges and maxLane = 1.
C24_EmptyInput ==
  (pc = "done" /\ hashes = << >>)
    => /\ NodePositions = << >>
       /\ edges = << >>
       /\ maxLane = 1

\* C24 witness: the pass has run over no commits.
C24_Witness ==
  /\ pc = "done" /\ hashes = << >> /\ parents = << >>
  /\ i = 0 /\ lanes = << >> /\ laneOccupied = << >>
  /\ maxLane > 0
\* ---- properties of windows with duplicate hashes ------------------------
\* some row after row r carries the hash of row r
CarriedAgainLater(r) == \E k \in (r + 1)..(N - 1) : hashes[k + 1] = hashes[r + 1]

\* C25: duplicate hashes -- when two rows carry one hash h, a lane that
\* expects h is taken by the first of them that the pass comes to, whereas
\* every edge to parent h ends at the node of the last row with hash h.
C25_DuplicateHashes ==
  /\ [](pc = "done" =>
          \A r, k \in 0..(N - 1) : \A p \in 0..(Len(parents[r + 1]) - 1) :
            EdgeTarget(parents[r + 1][p + 1], k) =>
              /\ edges[EdgeIndex(r, p)].x2 = lanes[k + 1] * COL_WIDTH + PADDING_LEFT
              /\ edges[EdgeIndex(r, p)].y2 = k * ROW_HEIGHT + ROW_HEIGHT \div 2)
  /\ [][(/\ IsAssignStep
         /\ CarriedAgainLater(i)
         /\ LanesExpecting(laneExpects, hashes[i + 1]) # {})
          => lanes'[i + 1] = SetMin(LanesExpecting(laneExpects, hashes[i + 1]))]_vars

\* C25 witness: row r lists h first, rows j < k carry h; row j continued
\* the lane of row r, and the edge of row r ends at row k in another lane.
C25_Witness ==
  /\ pc = "done"
  /\ \E r, j, k \in 0..(N - 1) :
       /\ r < j /\ j < k
       /\ hashes[j + 1] = hashes[k + 1]
       /\ Len(parents[r + 1]) > 0 /\ parents[r + 1][1] = hashes[j + 1]
       /\ lanes[j + 1] = lanes[r + 1]
       /\ lanes[k + 1] # lanes[j + 1]
       /\ edges[EdgeIndex(r, 0)].x2 = NodePosition(k).x
       /\ edges[EdgeIndex(r, 0)].y2 = NodePosition(k).y
\* ---- properties of the registry -----------------------------------------
DistinctPaths(repos) ==
  \A a, b \in 1..Len(repos) : a # b => repos[a].path # repos[b].path

\* caller c goes on from the list it has read
ReadsAs(c) == rPc[c] = "read" /\ rPc'[c] # "read"

\* C26: registry path uniqueness -- the stored paths stay pairwise distinct
\* under addRepo, removeRepo, toggleFavorite and reorderRepos; addRepo with
\* a stored path fails with 'Repository already added' and leaves the
\* stored list as it is.
C26_PathUniqueness ==
  /\ [](DistinctPaths(file))
  /\ [][\A c \in Callers :
          (ReadsAs(c) /\ rOp[c].kind = "add"
             /\ \E k \in 1..Len(file) : file[k].path = rOp[c].path)
            => /\ rResult'[c] = "Repository already added"
               /\ rPc'[c] = "idle"
               /\ file' = file]_vars

\* C26 witness: two repositories are stored, nobody is at work, and a
\* caller's addRepo was refused for a stored path.
C26_Witness ==
  /\ Len(file) = 2 /\ file[1].path # file[2].path
  /\ \E c \in Callers :
       /\ rResult[c] = "Repository already added"
       /\ \A d \in Callers : rPc[d] = "idle"

\* C27: no lost update -- when the operations have returned, every
\* repository that addRepo returned and removeRepo did not remove is
\* stored, and no repository that removeRepo removed is stored.
C27_NoLostUpdate ==
  (\A c \in Callers : rPc[c] = "idle")
    => /\ \A id \in added \ removed : id \in StoredIds
       /\ \A id \in removed : id \notin StoredIds
\* C28: validation before execution -- an unknown repository id is answered
\* 404; a blank required field (missing, empty or white space) and an
\* unknown action are answered 400; in all these cases no git command runs.
C28_ValidationFirst ==
  aPc = "responded" =>
    /\ ~request.repoFound => (response.status = 404 /\ gitRuns = 0)
    /\ (/\ request.repoFound
        /\ \/ request.action = "unknown"
           \/ /\ request.action \in
                   {"commit", "create-branch", "merge", "rebase", "delete-branch",
                    "delete-remote-branch", "search-commits", "get-file-diff"}
              /\ request.field \in {"undefined", "", " "})
         => (response.status = 400 /\ gitRuns = 0)

\* C28 witness: a merge whose branch is white space only was answered 400
\* without a git command.
C28_Witness ==
  /\ aPc = "responded"
  /\ request.repoFound /\ request.action = "merge" /\ request.field = " "
  /\ response.status = 400 /\ gitRuns = 0 /\ exec = NoExec
\* ---- properties of the desktop shell ------------------------------------
\* C29: re-activation reaches a served UI -- on macOS, once the app has
\* started its server, a window created by activate eventually shows the
\* application, loaded from a running server of the app (unless the user
\* closes the window or quits first); and a window shows the application
\* only while a server of the app is alive.
C29_ReactivationServed ==
  /\ []((platform = "darwin" /\ shPc = "ready" /\ windowBy = "activate")
          => <>(\/ mainWindow = "app" /\ server = "listening"
                \/ windowBy # "activate"))
  /\ [](mainWindow = "app" => server # "none")
====
